---------------------------- MODULE Spec2Model ----------------------------
(***************************************************************************)
(* Readiness-state engine of the Dynasty Tracker bot.                      *)
(*                                                                         *)
(*   storage.py          DynastyStorage: the (dynasty, user) -> ready      *)
(*                       table, its lock, the JSON snapshot file and the   *)
(*                       background save threads                           *)
(*   dynasty_tracker.py  DynastyTracker: the message listener, mark_ready, *)
(*                       auto_reset_dynasty and the reset command, run as  *)
(*                       tasks of one cooperative event loop               *)
(*                                                                         *)
(* Two specifications share the definitions of the store:                  *)
(*   StoreSpec  threads calling the store's methods step by step, the      *)
(*              save threads and the snapshot file;                        *)
(*   Spec       the event loop: handler tasks that interleave at their     *)
(*              awaits and call the store's methods synchronously.         *)
(***************************************************************************)
EXTENDS Integers, Sequences, FiniteSets, TLC

(***************************************************************************)
(* Bounds.                                                                 *)
(***************************************************************************)
\* how many of the configured dynasties / users the model tracks
NumDynasties == 2
NumUsers == 2
\* threads that call the store concurrently (StoreSpec)
NumCallers == 2
\* handler tasks alive at once on the event loop (Spec)
MaxTasks == 2

(***************************************************************************)
(* Config.py                                                               *)
(***************************************************************************)
ALL_DYNASTIES == <<"ADHNN", "ADHOC", "ADTBB", "ADTBS">>
ALL_USERS == <<"Samsonite000", "chaseisntonfire", "Nmatt73">>

DYNASTIES == SubSeq(ALL_DYNASTIES, 1, NumDynasties)
USERS == SubSeq(ALL_USERS, 1, NumUsers)

\* Config.py, lines 41-42: Saturday (0 is Monday), 9 AM
REMINDER_DAY == 5
REMINDER_HOUR == 9

Range(s) == {s[i] : i \in 1..Len(s)}

(***************************************************************************)
(* Strings.  A text is a sequence of words and "x in text" holds when x is *)
(* one of them.  str.upper() is given for every word the model uses; a     *)
(* word it does not list has no lower-case letter.                         *)
(***************************************************************************)
upper(s) ==
    CASE s = "adhnn" -> "ADHNN"
      [] s = "adhoc" -> "ADHOC"
      [] s = "adtbb" -> "ADTBB"
      [] s = "adtbs" -> "ADTBS"
      [] s = "nope" -> "NOPE"
      [] s \in {"ready", "Ready"} -> "READY"
      [] s = "is" -> "IS"
      [] s = "now" -> "NOW"
      [] s = "hello" -> "HELLO"
      [] s = "world" -> "WORLD"
      [] s = "Samsonite000" -> "SAMSONITE000"
      [] s \in {"chaseisntonfire", "ChaseIsntOnFire"} -> "CHASEISNTONFIRE"
      [] s \in {"Nmatt73", "nmatt73"} -> "NMATT73"
      [] s = "xX" -> "XX"
      [] s = "stranger" -> "STRANGER"
      [] OTHER -> s

(***************************************************************************)
(* The table: a dict of dicts, modelled as a function from the dynasty     *)
(* keys present to a function from the user keys present to a boolean.     *)
(* Keys outside the configuration can only come from a snapshot file.      *)
(***************************************************************************)
EmptyDict == [k \in {} |-> FALSE]

\* d[k] = v on a Python dict: binds k, creating the key when it is absent
DictSet(d, k, v) == [x \in (DOMAIN d) \cup {k} |-> IF x = k THEN v ELSE d[x]]

\* iteration order of the keys of the model's dicts
DYN_KEYS == ALL_DYNASTIES \o <<"OLDDYN">>
USER_KEYS == ALL_USERS \o <<"olduser">>

\* DynastyStorage._create_default_data
_create_default_data == [d \in Range(DYNASTIES) |-> [u \in Range(USERS) |-> FALSE]]

\* DynastyStorage.is_ready
is_ready(data, user, dynasty) ==
    LET dyn == upper(dynasty) IN
    IF dyn \notin DOMAIN data THEN FALSE
    ELSE IF user \notin DOMAIN data[dyn] THEN FALSE
    ELSE data[dyn][user]

\* a set_ready that checks the dynasty key only: a faulty variant, which the
\* UnknownKey property must tell from the code's
set_ready_dynasty_check_only(data, user, dynasty) == upper(dynasty) \in DOMAIN data

\* DynastyStorage.set_ready, lines 95-104: the two key checks
set_ready_keys_ok(data, user, dynasty) ==
    LET dyn == upper(dynasty) IN
    IF dyn \notin DOMAIN data THEN FALSE
    ELSE IF user \notin DOMAIN data[dyn] THEN FALSE
    ELSE TRUE

\* a set_ready that rebuilds the dynasty's whole row with the value: a faulty
\* variant, which the concurrent-setReady property must tell from the code's
set_ready_write_row(data, user, dynasty, ready) ==
    DictSet(data, upper(dynasty), [u \in DOMAIN data[upper(dynasty)] \cup {user} |-> ready])

\* DynastyStorage.set_ready, line 108: self.data[dynasty][user] = ready
set_ready_write(data, user, dynasty, ready) ==
    LET dyn == upper(dynasty) IN
    DictSet(data, dyn, DictSet(data[dyn], user, ready))

\* DynastyStorage.get_dynasty_status
get_dynasty_status(data, dynasty) ==
    LET dyn == upper(dynasty) IN
    IF dyn \notin DOMAIN data THEN EmptyDict ELSE data[dyn]

\* DynastyStorage.get_all_statuses
get_all_statuses(data) == data

(***************************************************************************)
(* The snapshot file's text.  json.dump writes "true" (4 characters) or    *)
(* "false" (5) for a value, so two tables over the same keys give texts of *)
(* different lengths.  The model keeps every character of a value, and one *)
(* cell for each brace and each key; the quotes, colons, commas and the    *)
(* indentation, which are the same in every dump of the same keys, are     *)
(* left out.                                                               *)
(***************************************************************************)
ValueCells(b) == IF b THEN <<"t", "r", "u", "e">> ELSE <<"f", "a", "l", "s", "e">>

RECURSIVE DumpUsers(_, _)
DumpUsers(row, i) ==
    IF i > Len(USER_KEYS) THEN <<>>
    ELSE (IF USER_KEYS[i] \in DOMAIN row
            THEN <<USER_KEYS[i]>> \o ValueCells(row[USER_KEYS[i]])
            ELSE <<>>) \o DumpUsers(row, i + 1)

RECURSIVE DumpDynasties(_, _)
DumpDynasties(t, i) ==
    IF i > Len(DYN_KEYS) THEN <<>>
    ELSE (IF DYN_KEYS[i] \in DOMAIN t
            THEN <<DYN_KEYS[i], "{">> \o DumpUsers(t[DYN_KEYS[i]], 1) \o <<"}">>
            ELSE <<>>) \o DumpDynasties(t, i + 1)

\* json.dump(table, f)
json_dump(t) == <<"{">> \o DumpDynasties(t, 1) \o <<"}">>

IsKeyCell(c) == c \notin {"{", "}", "t", "r", "u", "e", "f", "a", "l", "s"}

ParseFail == [ok |-> FALSE, val |-> EmptyDict, next |-> 0]

\* a reader that takes every value for true, as bool("false") would: a
\* faulty variant, which the round trip must tell from json.load
ParseValueTruthy(s, i) ==
    IF i + 3 <= Len(s) /\ SubSeq(s, i, i + 3) = ValueCells(TRUE)
      THEN [ok |-> TRUE, val |-> TRUE, next |-> i + 4]
    ELSE IF i + 4 <= Len(s) /\ SubSeq(s, i, i + 4) = ValueCells(FALSE)
      THEN [ok |-> TRUE, val |-> TRUE, next |-> i + 5]
    ELSE [ok |-> FALSE, val |-> FALSE, next |-> 0]

ParseValue(s, i) ==
    IF i + 3 <= Len(s) /\ SubSeq(s, i, i + 3) = ValueCells(TRUE)
      THEN [ok |-> TRUE, val |-> TRUE, next |-> i + 4]
    ELSE IF i + 4 <= Len(s) /\ SubSeq(s, i, i + 4) = ValueCells(FALSE)
      THEN [ok |-> TRUE, val |-> FALSE, next |-> i + 5]
    ELSE [ok |-> FALSE, val |-> FALSE, next |-> 0]

RECURSIVE ParseUsers(_, _, _)
ParseUsers(s, i, acc) ==
    IF i > Len(s) THEN ParseFail
    ELSE IF s[i] = "}" THEN [ok |-> TRUE, val |-> acc, next |-> i + 1]
    ELSE IF ~IsKeyCell(s[i]) THEN ParseFail
    ELSE LET v == ParseValue(s, i + 1) IN
         IF v.ok THEN ParseUsers(s, v.next, DictSet(acc, s[i], v.val))
         ELSE ParseFail

RECURSIVE ParseDynasties(_, _, _)
ParseDynasties(s, i, acc) ==
    IF i > Len(s) THEN ParseFail
    ELSE IF s[i] = "}" THEN [ok |-> TRUE, val |-> acc, next |-> i + 1]
    ELSE IF ~IsKeyCell(s[i]) THEN ParseFail
    ELSE IF i + 1 > Len(s) \/ s[i + 1] # "{" THEN ParseFail
    ELSE LET row == ParseUsers(s, i + 2, EmptyDict) IN
         IF row.ok THEN ParseDynasties(s, row.next, DictSet(acc, s[i], row.val))
         ELSE ParseFail

\* json.load(f): the table, or a failure (JSONDecodeError) on text that is
\* not one complete document
json_load(s) ==
    IF Len(s) = 0 \/ s[1] # "{" THEN ParseFail
    ELSE LET r == ParseDynasties(s, 2, EmptyDict) IN
         IF r.ok /\ r.next = Len(s) + 1 THEN r ELSE ParseFail

\* the file: whether it exists, and its text
NoFile == [exists |-> FALSE, cells |-> <<>>]
FileOf(cells) == [exists |-> TRUE, cells |-> cells]

\* a _load_data that falls back to the default table without saving it: a
\* faulty variant, which the load fallback must tell from the code's
_load_data_no_save(f) ==
    IF f.exists /\ json_load(f.cells).ok
      THEN [data |-> json_load(f.cells).val, save |-> FALSE]
      ELSE [data |-> _create_default_data, save |-> FALSE]

\* DynastyStorage._load_data: the table after startup and whether a save was
\* started (lines 56 and 61)
_load_data(f) ==
    IF f.exists
      THEN LET r == json_load(f.cells) IN
           IF r.ok THEN [data |-> r.val, save |-> FALSE]
           ELSE [data |-> _create_default_data, save |-> TRUE]
      ELSE [data |-> _create_default_data, save |-> TRUE]



(***************************************************************************)
(* State.                                                                  *)
(***************************************************************************)
VARIABLES
    data,       \* DynastyStorage.data, the in-memory table
    data0,      \* the table as _load_data left it at startup
    boot,       \* what startup found and did: the file, whether a save was started
    lock,       \* DynastyStorage._lock: Free, or the thread that holds it
    callers,    \* StoreSpec: per calling thread, its call and its position in it
    savers,     \* StoreSpec: per save thread, its position in _save_data_background
    access,     \* StoreSpec: the table access of the last step, "none" when it made none
    file,       \* SaveSpec: the snapshot file at DATA_PATH
    writers,    \* SaveSpec: per save thread, its position, its copy and its buffer
    lastOut,    \* SaveSpec: how the last save thread to end ended
    tasks,      \* Spec: per task of the event loop, the await it is suspended at
    ev,         \* Spec: what the last step of the event loop did
    sched,      \* TickSpec: the wall clock and the recurring reminder task
    heap        \* HeapSpec: the objects of the process: stores, rows, returned results

storeVars == <<callers, savers, access>>
saveVars == <<file, writers, lastOut>>
botVars == <<tasks, ev>>
vars == <<data, data0, boot, lock, callers, savers, access, file, writers, lastOut, tasks, ev, sched, heap>>

Callers == 1..NumCallers
\* one save thread per call of set_ready, and thread 0 for the save of _load_data
Savers == 0..NumCallers

Free == <<"free", 0>>
CallerId(c) == <<"caller", c>>
SaverId(w) == <<"saver", w>>

(***************************************************************************)
(* Inputs.                                                                 *)
(***************************************************************************)
\* the user arguments: the first and the last tracked user and a name that is
\* not tracked
UserArgs == {USERS[1], USERS[NumUsers], "nobody"}
\* the dynasty arguments: a lower-case spelling of a configured dynasty and
\* an identifier that is not configured
DynastyArgs == {"adhnn", "nope"}

\* tables a snapshot file of an earlier run may hold: over exactly the
\* configured keys, or written under another configuration (a user or a
\* dynasty since added to or removed from Config.py)
AllFalse(dyns, users) == [d \in dyns |-> [u \in users |-> FALSE]]
FileTables ==
    {_create_default_data,
     set_ready_write(_create_default_data, USERS[1], DYNASTIES[1], TRUE),
     AllFalse(Range(DYNASTIES), Range(USERS) \ {USERS[NumUsers]}),
     AllFalse(Range(DYNASTIES) \ {DYNASTIES[1]}, Range(USERS)),
     AllFalse(Range(DYNASTIES) \cup {"OLDDYN"}, Range(USERS) \cup {"olduser"})}

\* what DATA_PATH may hold at startup: nothing, a truncated text, a snapshot
Snapshots == {NoFile, FileOf(<<"{">>)} \cup {FileOf(json_dump(t)) : t \in FileTables}

\* the record of a startup: the file found at DATA_PATH, whether _load_data
\* started a save, and, at a restart, the table the run before ended with
\* and whether the file was the written form of that table
Booted(f, prev) ==
    [file |-> f, saved |-> _load_data(f).save, prev |-> prev,
     synced |-> f = FileOf(json_dump(prev))]

(***************************************************************************)
(* The event loop's tasks.                                                 *)
(***************************************************************************)
Tasks == 1..MaxTasks

\* a task slot: idle, or a handler suspended at an await
\*   "send"    mark_ready, line 68: await message.channel.send(embed=embed)
\*   "delete"  mark_ready, line 70: await message.delete()
\*   "bsend"   auto_reset_dynasty, line 106: await channel.send(...)
\*   "csend"   a command's await ctx.send(embed=embed)
\* user, dynasty: mark_ready's arguments; rest: the dynasties on_message's
\* loop has still to visit; wrote, completing: whether this mark_ready's
\* set_ready returned True, and whether it left every configured user ready
NoTask == [pc |-> "idle", user |-> "", dynasty |-> "", rest |-> <<>>,
           wrote |-> FALSE, completing |-> FALSE]

\* the last step: the set_ready(.., True) it made, the dynasties it reset,
\* the all-ready check it made (and what the check read in the handler's own
\* entry), the mark_ready that ended in it (returned or raised), the
\* notifications it sent, the save threads it started; for a wakeup of the
\* reminder task, whether the time matched, the embeds it built and how
\* many channels took them; ignored: on_message ended without a call of
\* mark_ready
NoEvent == [marked |-> {}, reset |-> {}, check |-> FALSE, own |-> FALSE,
            wrote |-> FALSE, markEnd |-> FALSE, raised |-> FALSE,
            completing |-> FALSE, autoReset |-> FALSE, dynasty |-> "",
            sent |-> {}, saves |-> 0, ignored |-> FALSE,
            tick |-> "none", embeds |-> <<>>, delivered |-> 0]

\* the clock at the start of the model's window (the day before the
\* reminder's, the hour before its hour), the recurring task not started
NoSched == [day |-> REMINDER_DAY - 1, hour |-> REMINDER_HOUR - 1, minute |-> 0,
            running |-> FALSE, due |-> 0, fired |-> 0, atStart |-> FALSE, atEnd |-> FALSE]

(***************************************************************************)
(* The save thread's copy, its buffer and the file.                        *)
(***************************************************************************)
\* save threads alive at once in SaveSpec (a call that would start one more
\* waits for a thread to end)
MaxWriters == 2
\* firings of the reminder counted within one week
MaxFires == 2
Writers == 1..MaxWriters

\* a save thread: its position, the keys of its copy, the values json.dump
\* has read, the table at the time of the copy, and whether it is the
\* thread _load_data started
NoWriter == [pc |-> "none", rows |-> {}, vals |-> <<>>, snap |-> EmptyDict, boot |-> FALSE]
\* _save_data: threading.Thread(target=self._save_data_background).start()
_save_data == [pc |-> "start", rows |-> {}, vals |-> <<>>, snap |-> EmptyDict, boot |-> FALSE]
\* _load_data, lines 56 and 61: self._save_data()
StartupSave == [_save_data EXCEPT !.boot = TRUE]

\* the end of the last save thread to end: whether it wrote its text, the
\* text, and whether it ended in its except clause
NoOut == [some |-> FALSE, text |-> <<>>, failed |-> FALSE]

\* the cogs, each of which holds DynastyStorage() as self.storage
Components == {"DynastyTracker", "Reminders"}
\* the holders of a result of get_dynasty_status or get_all_statuses: the
\* cog whose commands build the status embeds
Results == {"DynastyTracker"}

\* a name for a dict: the private dict val (idx = 0), or the shared object
\* idx (a row of heap.rows, or the data dict of the store heap.stores[idx])
Own(val) == [idx |-> 0, val |-> val]
Shared(idx) == [idx |-> idx, val |-> EmptyDict]

\* no result kept in a slot; row: the dict get_dynasty_status returned;
\* outer, rowOf: the dict get_all_statuses returned and the row under each
\* dynasty; at: the values the result had when it was returned or last
\* changed by its holder
NoResult == [kind |-> "none", row |-> Own(EmptyDict), outer |-> Own(EmptyDict),
             rowOf |-> EmptyDict, at |-> EmptyDict]

\* before the first DynastyStorage(): cls._instance = None, cls._initialized
\* = False (lines 19-20); loads counts the runs of _load_data; table is the
\* table as the calls of set_ready that returned True have made it
NoHeap == [rows |-> <<>>, stores |-> <<>>, instance |-> 0, initialized |-> FALSE,
           loads |-> 0, refs |-> [c \in Components |-> 0],
           results |-> [k \in Results |-> NoResult], table |-> EmptyDict]

\* the (dynasty, user) entries json.dump visits, in order: the rows of the
\* copied outer dict, each row's users read from the row itself
RECURSIVE RowEntries(_, _, _)
RowEntries(d, row, i) ==
    IF i > Len(USER_KEYS) THEN <<>>
    ELSE (IF USER_KEYS[i] \in DOMAIN row THEN <<(<<d, USER_KEYS[i]>>)>> ELSE <<>>)
         \o RowEntries(d, row, i + 1)

RECURSIVE Entries(_, _, _)
Entries(rows, t, i) ==
    IF i > Len(DYN_KEYS) THEN <<>>
    ELSE (IF DYN_KEYS[i] \in rows THEN RowEntries(DYN_KEYS[i], t[DYN_KEYS[i]], 1) ELSE <<>>)
         \o Entries(rows, t, i + 1)

IndexOf(seq, x) == CHOOSE i \in 1..Len(seq) : seq[i] = x

\* the table json.dump has serialised once it has read vals, entry by entry
Dumped(rows, t, vals) ==
    LET es == Entries(rows, t, 1) IN
    [d \in rows |-> [u \in DOMAIN t[d] |-> vals[IndexOf(es, <<d, u>>)]]]

\* f.write at offset 0 of a file that another thread may have written since
\* this thread's open() truncated it
WriteAt0(old, text) ==
    IF Len(text) >= Len(old) THEN text
    ELSE text \o SubSeq(old, Len(text) + 1, Len(old))

(***************************************************************************)
(* StoreSpec: threads that call the store, and the lock.                   *)
(*                                                                         *)
(* Each thread makes one call.  set_ready runs in the steps the code gives *)
(* it: the key checks (no lock), the acquire, the write and release, the   *)
(* start of the save thread.  A save thread copies under the lock and      *)
(* goes on to its file I/O, which StoreSpec does not follow (SaveSpec      *)
(* does).                                                                  *)
(***************************************************************************)
\* a thread's call: its position, the operation, the arguments (kept after
\* the return only for a set_ready that wrote), whether the keys it named
\* are in the table, and what it returned
Idle == [pc |-> "idle", op |-> "none", user |-> "", dynasty |-> "", ready |-> FALSE,
         known |-> FALSE, val |-> FALSE, map |-> EmptyDict]

\* whether (dynasty, user) is an entry of the table t
HasEntry(t, user, dyn) == dyn \in DOMAIN t /\ user \in DOMAIN t[dyn]

StoreInit ==
    \E f \in Snapshots :
        /\ data = _load_data(f).data
        /\ data0 = _load_data(f).data
        /\ boot = Booted(f, EmptyDict)
        /\ sched = NoSched
        /\ heap = NoHeap
        /\ savers = [w \in Savers |-> IF w = 0 /\ _load_data(f).save THEN "start" ELSE "none"]
        /\ lock = Free
        /\ callers = [c \in Callers |-> Idle]
        /\ access = "none"
        /\ file = f
        /\ writers = [w \in Writers |-> NoWriter]
        /\ lastOut = NoOut
        /\ tasks = [h \in Tasks |-> NoTask]
        /\ ev = NoEvent

Accessed(tid) == IF lock = tid THEN "locked" ELSE "unlocked"

\* the threads are numbered in the order in which they make their calls
NextCaller(c) ==
    /\ callers[c].pc = "idle"
    /\ \A b \in Callers : b < c => callers[b].pc # "idle"

\* a thread calls set_ready(user, dynasty, ready)
CallSetReady(c, u, d, r) ==
    /\ NextCaller(c)
    /\ callers' = [callers EXCEPT ![c] =
                     [Idle EXCEPT !.pc = "check", !.op = "set_ready", !.user = u,
                                  !.dynasty = d, !.ready = r,
                                  !.known = HasEntry(data, u, upper(d))]]
    /\ access' = "none"
    /\ UNCHANGED <<data, data0, boot, sched, heap, lock, savers, saveVars, botVars>>

\* set_ready, lines 95-104: return False on a key that is not in the table
SetReadyCheck(c) ==
    LET a == callers[c] IN
    /\ a.pc = "check"
    /\ access' = Accessed(CallerId(c))
    /\ callers' = [callers EXCEPT ![c] =
                     IF set_ready_keys_ok(data, a.user, a.dynasty)
                       THEN [a EXCEPT !.pc = "acquire"]
                       ELSE [Idle EXCEPT !.pc = "returned", !.op = "set_ready",
                                         !.known = a.known, !.val = FALSE]]
    /\ UNCHANGED <<data, data0, boot, sched, heap, lock, savers, saveVars, botVars>>

\* set_ready, line 107: with self._lock
SetReadyAcquire(c) ==
    /\ callers[c].pc = "acquire"
    /\ lock = Free
    /\ lock' = CallerId(c)
    /\ callers' = [callers EXCEPT ![c].pc = "write"]
    /\ access' = "none"
    /\ UNCHANGED <<data, data0, boot, sched, heap, savers, saveVars, botVars>>

\* set_ready, line 108, and the release of the lock
SetReadyWrite(c) ==
    LET a == callers[c] IN
    /\ a.pc = "write"
    /\ data' = set_ready_write(data, a.user, a.dynasty, a.ready)
    /\ access' = Accessed(CallerId(c))
    /\ lock' = Free
    /\ callers' = [callers EXCEPT ![c].pc = "spawn"]
    /\ UNCHANGED <<data0, boot, sched, heap, savers, saveVars, botVars>>

\* set_ready, lines 111-113: _save_data starts the save thread; return True
SetReadySpawn(c) ==
    /\ callers[c].pc = "spawn"
    /\ savers' = [savers EXCEPT ![c] = "start"]
    /\ callers' = [callers EXCEPT ![c].pc = "returned", ![c].val = TRUE]
    /\ access' = "none"
    /\ UNCHANGED <<data, data0, boot, sched, heap, lock, saveVars, botVars>>

\* a thread calls is_ready(user, dynasty)
CallIsReady(c, u, d) ==
    /\ NextCaller(c)
    /\ access' = Accessed(CallerId(c))
    /\ callers' = [callers EXCEPT ![c] =
                     [Idle EXCEPT !.pc = "returned", !.op = "is_ready",
                                  !.known = HasEntry(data, u, upper(d)),
                                  !.val = is_ready(data, u, d)]]
    /\ UNCHANGED <<data, data0, boot, sched, heap, lock, savers, saveVars, botVars>>

\* a thread calls get_dynasty_status(dynasty)
CallGetDynastyStatus(c, d) ==
    /\ NextCaller(c)
    /\ access' = Accessed(CallerId(c))
    /\ callers' = [callers EXCEPT ![c] =
                     [Idle EXCEPT !.pc = "returned", !.op = "get_dynasty_status",
                                  !.known = upper(d) \in DOMAIN data,
                                  !.map = get_dynasty_status(data, d)]]
    /\ UNCHANGED <<data, data0, boot, sched, heap, lock, savers, saveVars, botVars>>

\* a thread calls get_all_statuses()
CallGetAllStatuses(c) ==
    /\ NextCaller(c)
    /\ access' = Accessed(CallerId(c))
    /\ callers' = [callers EXCEPT ![c] =
                     [Idle EXCEPT !.pc = "returned", !.op = "get_all_statuses",
                                  !.known = TRUE, !.map = get_all_statuses(data)]]
    /\ UNCHANGED <<data, data0, boot, sched, heap, lock, savers, saveVars, botVars>>

\* _save_data_background, lines 118-119: with self._lock, data_copy =
\* self.data.copy(), and the release of the lock, as one step (the thread
\* writes nothing while it holds the lock); the thread goes on to write the
\* file
SaverCopy(w) ==
    /\ savers[w] = "start"
    /\ lock = Free
    /\ savers' = [savers EXCEPT ![w] = "io"]
    /\ access' = "locked"
    /\ UNCHANGED <<data, data0, boot, sched, heap, lock, callers, saveVars, botVars>>

StoreNext ==
    \/ \E c \in Callers, u \in UserArgs, d \in DynastyArgs, r \in BOOLEAN :
           CallSetReady(c, u, d, r)
    \/ \E c \in Callers : SetReadyCheck(c)
    \/ \E c \in Callers : SetReadyAcquire(c)
    \/ \E c \in Callers : SetReadyWrite(c)
    \/ \E c \in Callers : SetReadySpawn(c)
    \/ \E c \in Callers, u \in UserArgs, d \in DynastyArgs : CallIsReady(c, u, d)
    \/ \E c \in Callers, d \in DynastyArgs : CallGetDynastyStatus(c, d)
    \/ \E c \in Callers : CallGetAllStatuses(c)
    \/ \E w \in Savers : SaverCopy(w)

StoreSpec == StoreInit /\ [][StoreNext]_vars

(***************************************************************************)
(* SaveSpec: the save threads and the snapshot file.                       *)
(*                                                                         *)
(* The calls of set_ready come from one thread (the event loop's), each    *)
(* taken as one step: its key checks, its locked write and the start of    *)
(* its save thread.  The save threads run _save_data_background in the     *)
(* steps at which another thread can come in between: the acquire, the     *)
(* copy, the open, each entry the encoder reads, the write at close.       *)
(***************************************************************************)
SaveInit ==
    \E f \in Snapshots :
        /\ data = _load_data(f).data
        /\ data0 = _load_data(f).data
        /\ boot = Booted(f, EmptyDict)
        /\ sched = NoSched
        /\ heap = NoHeap
        /\ file = f
        /\ writers = [w \in Writers |->
                        IF w = 1 /\ _load_data(f).save THEN StartupSave ELSE NoWriter]
        /\ lastOut = NoOut
        /\ lock = Free
        /\ callers = [c \in Callers |-> Idle]
        /\ savers = [w \in Savers |-> "none"]
        /\ access = "none"
        /\ tasks = [h \in Tasks |-> NoTask]
        /\ ev = NoEvent

\* set_ready(user, dynasty, ready), lines 95-113
SetReady(u, d, r) ==
    /\ lock = Free
    /\ IF set_ready_keys_ok(data, u, d)
         THEN \E w \in Writers :
                /\ writers[w].pc = "none"
                /\ \A v \in Writers : v < w => writers[v].pc # "none"
                /\ data' = set_ready_write(data, u, d, r)
                /\ writers' = [writers EXCEPT ![w] = _save_data]
         ELSE UNCHANGED <<data, writers>>
    /\ UNCHANGED <<data0, boot, sched, heap, lock, file, lastOut, storeVars, botVars>>

\* _save_data_background, line 118: with self._lock
WriterAcquire(w) ==
    /\ writers[w].pc = "start"
    /\ lock = Free
    /\ lock' = SaverId(w)
    /\ writers' = [writers EXCEPT ![w].pc = "locked"]
    /\ UNCHANGED <<data, data0, boot, sched, heap, file, lastOut, storeVars, botVars>>

\* line 119, data_copy = self.data.copy(): a new outer dict whose values are
\* the table's own rows; and the release of the lock
WriterCopy(w) ==
    /\ writers[w].pc = "locked"
    /\ writers' = [writers EXCEPT ![w] =
                     [pc |-> "open", rows |-> DOMAIN data, vals |-> <<>>, snap |-> data,
                      boot |-> writers[w].boot]]
    /\ lock' = Free
    /\ UNCHANGED <<data, data0, boot, sched, heap, file, lastOut, storeVars, botVars>>

\* line 122, open(self.data_path, 'w'): creates or truncates the file
WriterOpen(w) ==
    /\ writers[w].pc = "open"
    /\ file' = FileOf(<<>>)
    /\ writers' = [writers EXCEPT ![w].pc =
                     IF Len(Entries(writers[w].rows, data, 1)) = 0 THEN "close" ELSE "dump"]
    /\ UNCHANGED <<data, data0, boot, sched, heap, lock, lastOut, storeVars, botVars>>

\* line 123, json.dump(data_copy, f): the encoder reads the next entry from
\* the row it shares with the table; the text stays in f's buffer
WriterDump(w) ==
    LET x == writers[w]
        es == Entries(x.rows, data, 1)
        e == es[Len(x.vals) + 1]
    IN
    /\ x.pc = "dump"
    /\ writers' = [writers EXCEPT ![w].vals = Append(x.vals, data[e[1]][e[2]]),
                                  ![w].pc = IF Len(x.vals) + 1 = Len(es) THEN "close" ELSE "dump"]
    /\ UNCHANGED <<data, data0, boot, sched, heap, lock, file, lastOut, storeVars, botVars>>

\* the end of the with block: the buffer is written at this thread's file
\* offset, 0, and the file closed
WriterClose(w) ==
    LET x == writers[w]
        text == json_dump(Dumped(x.rows, data, x.vals))
    IN
    /\ x.pc = "close"
    /\ file' = FileOf(WriteAt0(file.cells, text))
    /\ lastOut' = [some |-> TRUE, text |-> text, failed |-> FALSE]
    /\ writers' = [writers EXCEPT ![w] = NoWriter]
    /\ UNCHANGED <<data, data0, boot, sched, heap, lock, storeVars, botVars>>

\* how much of its buffer a close that fails has written: nothing, or all
\* but the last cell
FailedWrites(text) == IF Len(text) = 0 THEN {0} ELSE {0, Len(text) - 1}

\* a save thread that starts another when its write fails: a variant the
\* absence of a retry must tell from the code's
WriterFailRetry(w) ==
    /\ writers[w].pc \in {"open", "close"}
    /\ file' = file
    /\ lastOut' = [some |-> FALSE, text |-> <<>>, failed |-> TRUE]
    /\ writers' = [writers EXCEPT ![w] = _save_data]
    /\ UNCHANGED <<data, data0, boot, sched, heap, lock, storeVars, botVars>>

\* _save_data_background, lines 126-127: open() raises (the file is as it
\* was), or the write of the buffer at the end of the with block does (a
\* part of it may be in the file); the except clause logs it and the
\* thread ends
WriterFail(w) ==
    LET x == writers[w]
        text == json_dump(Dumped(x.rows, data, x.vals))
    IN
    /\ x.pc \in {"open", "close"}
    /\ IF x.pc = "open"
         THEN file' = file
         ELSE \E k \in FailedWrites(text) :
                file' = FileOf(WriteAt0(file.cells, SubSeq(text, 1, k)))
    /\ lastOut' = [some |-> FALSE, text |-> <<>>, failed |-> TRUE]
    /\ writers' = [writers EXCEPT ![w] = NoWriter]
    /\ UNCHANGED <<data, data0, boot, sched, heap, lock, storeVars, botVars>>

SaveNext ==
    \/ \E u \in UserArgs, d \in DynastyArgs, r \in BOOLEAN : SetReady(u, d, r)
    \/ \E w \in Writers : WriterAcquire(w)
    \/ \E w \in Writers : WriterCopy(w)
    \/ \E w \in Writers : WriterOpen(w)
    \/ \E w \in Writers : WriterDump(w)
    \/ \E w \in Writers : WriterClose(w)
    \/ \E w \in Writers : WriterFail(w)

SaveSpec == SaveInit /\ [][SaveNext]_vars

\* the runs in which no save thread fails: every open and every write of
\* _save_data_background succeeds
SaveOkNext ==
    \/ \E u \in UserArgs, d \in DynastyArgs, r \in BOOLEAN : SetReady(u, d, r)
    \/ \E w \in Writers : WriterAcquire(w)
    \/ \E w \in Writers : WriterCopy(w)
    \/ \E w \in Writers : WriterOpen(w)
    \/ \E w \in Writers : WriterDump(w)
    \/ \E w \in Writers : WriterClose(w)

SaveOkSpec == SaveInit /\ [][SaveOkNext]_vars

(***************************************************************************)
(* LoadSpec: runs of the process, one after the other.                     *)
(*                                                                         *)
(* Within a run every save thread ends before the next call of set_ready,  *)
(* so that a write is one step: the copy, the open, json.dump and the      *)
(* close.  The process can end at any time and start again on the file it  *)
(* left.                                                                   *)
(***************************************************************************)
LoadInit == SaveInit

\* _save_data_background, lines 118-123, with no other thread in between:
\* the file becomes the written form of the table
WholeSave(w) ==
    /\ writers[w].pc = "start"
    /\ file' = FileOf(json_dump(data))
    /\ lastOut' = [some |-> TRUE, text |-> json_dump(data), failed |-> FALSE]
    /\ writers' = [writers EXCEPT ![w] = NoWriter]
    /\ UNCHANGED <<data, data0, boot, sched, heap, lock, storeVars, botVars>>

\* set_ready(user, dynasty, ready), lines 95-113, and the save thread it
\* starts, run to its end
SetReadySaved(u, d, r) ==
    /\ IF set_ready_keys_ok(data, u, d)
         THEN /\ data' = set_ready_write(data, u, d, r)
              /\ file' = FileOf(json_dump(data'))
              /\ lastOut' = [some |-> TRUE, text |-> json_dump(data'), failed |-> FALSE]
         ELSE UNCHANGED <<data, file, lastOut>>
    /\ UNCHANGED <<data0, boot, sched, heap, lock, writers, storeVars, botVars>>

\* the process ends (its daemon save threads with it) and is started again:
\* DynastyStorage.__init__, lines 29-45, on the file as it is
Restart ==
    /\ data' = _load_data(file).data
    /\ data0' = _load_data(file).data
    /\ boot' = Booted(file, data)
    /\ writers' = [w \in Writers |->
                      IF w = 1 /\ _load_data(file).save THEN StartupSave ELSE NoWriter]
    /\ lastOut' = NoOut
    /\ UNCHANGED <<file, sched, heap, lock, storeVars, botVars>>

LoadNext ==
    \/ \E u \in UserArgs, i \in 1..Len(DYNASTIES), r \in BOOLEAN :
           SetReadySaved(u, DYNASTIES[i], r)
    \/ \E w \in Writers : WholeSave(w)
    \/ Restart

LoadSpec == LoadInit /\ [][LoadNext]_vars

(***************************************************************************)
(* Spec: the event loop.                                                   *)
(*                                                                         *)
(* A handler runs from one await to the next without another task coming   *)
(* in between, so each action is the code between two awaits; the calls of *)
(* the store inside it are whole calls.  The outcome of an await (the send *)
(* delivered or failed, the message deleted or not) is chosen when the     *)
(* task resumes.                                                           *)
(***************************************************************************)
\* DynastyStorage.set_ready, lines 93-113, as one call: what it returns and
\* the table after it (a save thread is started when it returns True)
set_ready(t, user, dynasty, ready) ==
    IF set_ready_keys_ok(t, user, dynasty)
      THEN [ok |-> TRUE, data |-> set_ready_write(t, user, dynasty, ready)]
      ELSE [ok |-> FALSE, data |-> t]

\* a reset that flips the dynasty's entries instead of clearing them: a
\* variant the idempotence of the reset must tell from the code's
reset_users_flip(t, dynasty, i) ==
    [data |-> IF dynasty \in DOMAIN t
                THEN [t EXCEPT ![dynasty] = [u \in DOMAIN t[dynasty] |-> ~t[dynasty][u]]]
                ELSE t,
     saves |-> 0]

\* a reset that clears every dynasty: a variant the frame of the reset of
\* one dynasty must tell from the code's
reset_users_everywhere(t, dynasty, i) ==
    [data |-> [d \in DOMAIN t |-> [u \in DOMAIN t[d] |-> FALSE]], saves |-> 0]

\* for user in USERS: self.storage.set_ready(user, dynasty, False), from the
\* i-th user on: the table after it and the number of calls that returned True
RECURSIVE reset_users(_, _, _)
reset_users(t, dynasty, i) ==
    IF i > Len(USERS) THEN [data |-> t, saves |-> 0]
    ELSE LET r == set_ready(t, USERS[i], dynasty, FALSE)
             more == reset_users(r.data, dynasty, i + 1)
         IN [data |-> more.data, saves |-> more.saves + (IF r.ok THEN 1 ELSE 0)]

\* DynastyTracker.auto_reset_dynasty, lines 85-86
auto_reset_dynasty(t, dynasty) == reset_users(t, dynasty, 1)

\* DynastyTracker.reset, lines 231-233: for d in DYNASTIES: for user in USERS
RECURSIVE reset_all(_, _)
reset_all(t, j) ==
    IF j > Len(DYNASTIES) THEN [data |-> t, saves |-> 0]
    ELSE LET r == reset_users(t, DYNASTIES[j], 1)
             more == reset_all(r.data, j + 1)
         IN [data |-> more.data, saves |-> r.saves + more.saves]

\* mark_ready, line 77: all(self.storage.is_ready(user, dynasty) for user in USERS)
all_ready(t, dynasty) == \A i \in 1..Len(USERS) : is_ready(t, USERS[i], dynasty)

\* text.upper(), as the set of its words.  A text is the sequence of its
\* words, none of which contains another, so that "x in text" on strings is
\* membership of x among the words.
Words(text) == {upper(text[i]) : i \in 1..Len(text)}

\* on_message, lines 39-41: the dynasties whose loop body runs, in order
RECURSIVE MatchedFrom(_, _)
MatchedFrom(content, j) ==
    IF j > Len(DYNASTIES) THEN <<>>
    ELSE (IF DYNASTIES[j] \in Words(content) /\ "READY" \in Words(content)
            THEN <<DYNASTIES[j]>> ELSE <<>>) \o MatchedFrom(content, j + 1)

MatchedDynasties(content) == MatchedFrom(content, 1)

\* a resolution that falls back on the first tracked user: a variant the
\* handling of an unknown author must tell from the code's
MatchedUserOrFirst(author) ==
    LET hits == {i \in 1..Len(USERS) : upper(USERS[i]) \in Words(author)} IN
    IF hits = {} THEN USERS[1]
    ELSE USERS[CHOOSE i \in hits : \A k \in hits : i <= k]

\* on_message, lines 47-51: the first tracked user whose upper-cased name is
\* in the upper-cased author name, "" when there is none
MatchedUser(author) ==
    LET hits == {i \in 1..Len(USERS) : upper(USERS[i]) \in Words(author)} IN
    IF hits = {} THEN ""
    ELSE USERS[CHOOSE i \in hits : \A k \in hits : i <= k]

\* the messages of the model
Contents == {<<"adhnn", "ready">>, <<"ADHOC", "is", "READY", "now">>,
             <<"ADHNN", "adhoc", "Ready">>, <<"hello", "world">>, <<"ADHNN">>,
             <<"nope", "ready">>}
Authors == {<<"SAMSONITE000">>, <<"ChaseIsntOnFire", "99">>, <<"xX", "nmatt73", "xX">>,
            <<"stranger">>}
Message(content, author, self, guild) ==
    [content |-> content, author |-> author, self |-> self, guild |-> guild]
\* every content by every author in the guild, and one signal sent by the bot
\* itself and one sent outside a guild
Messages ==
    {Message(c, a, FALSE, TRUE) : c \in Contents, a \in Authors}
        \cup {Message(<<"adhnn", "ready">>, <<"SAMSONITE000">>, TRUE, TRUE),
              Message(<<"adhnn", "ready">>, <<"SAMSONITE000">>, FALSE, FALSE)}
\* the arguments of the reset command: none, a dynasty, an unknown word
ResetArgs == {"", "adhnn", "ADHOC", "nope"}

Notice(kind, dynasty, user) == [kind |-> kind, dynasty |-> dynasty, user |-> user]

Init ==
    \E f \in Snapshots :
        /\ data = _load_data(f).data
        /\ data0 = _load_data(f).data
        /\ boot = Booted(f, EmptyDict)
        /\ sched = NoSched
        /\ heap = NoHeap
        /\ tasks = [h \in Tasks |-> NoTask]
        /\ ev = [NoEvent EXCEPT !.saves = IF _load_data(f).save THEN 1 ELSE 0]
        /\ lock = Free
        /\ callers = [c \in Callers |-> Idle]
        /\ savers = [w \in Savers |-> "none"]
        /\ access = "none"
        /\ file = f
        /\ writers = [w \in Writers |-> NoWriter]
        /\ lastOut = NoOut

\* on_message's loop with the table t and the event e so far: the call of
\* mark_ready for the next matching dynasty, up to its await of the
\* confirmation send (lines 59-68), or the end of the handler
LoopOn(h, t, user, rest, e) ==
    IF rest = <<>>
      THEN /\ data' = t
           /\ tasks' = [tasks EXCEPT ![h] = NoTask]
           /\ ev' = e
      ELSE LET r == set_ready(t, user, rest[1], TRUE) IN
           /\ data' = r.data
           /\ tasks' = [tasks EXCEPT ![h] =
                          [pc |-> "send", user |-> user, dynasty |-> rest[1],
                           rest |-> Tail(rest), wrote |-> r.ok,
                           completing |-> r.ok /\ all_ready(r.data, rest[1])]]
           /\ ev' = [e EXCEPT !.marked = {<<user, rest[1]>>},
                              !.sent = {Notice("confirm", rest[1], user)},
                              !.saves = e.saves + (IF r.ok THEN 1 ELSE 0)]

\* an exception leaves mark_ready and on_message: the task ends
Raise(h) ==
    LET t == tasks[h] IN
    /\ tasks' = [tasks EXCEPT ![h] = NoTask]
    /\ ev' = [NoEvent EXCEPT !.markEnd = TRUE, !.raised = TRUE, !.dynasty = t.dynasty,
                             !.wrote = t.wrote, !.completing = t.completing,
                             !.autoReset = (t.pc = "bsend")]
    /\ UNCHANGED data

\* on_message, lines 29-54: the message leads to no call of mark_ready
Ignored(m) ==
    m.self \/ ~m.guild \/ MatchedDynasties(m.content) = <<>> \/ MatchedUser(m.author) = ""

\* DynastyTracker.on_message, lines 26-54, up to the first await
OnMessage(h, m) ==
    /\ tasks[h].pc = "idle"
    /\ IF Ignored(m)
         THEN /\ ev' = [NoEvent EXCEPT !.ignored = TRUE]
              /\ UNCHANGED <<data, tasks>>
         ELSE LoopOn(h, data, MatchedUser(m.author), MatchedDynasties(m.content), NoEvent)
    /\ UNCHANGED <<data0, boot, sched, heap, lock, storeVars, saveVars>>

\* mark_ready resumes from line 68: the confirmation was sent, or send raised
SendDone(h, ok) ==
    /\ tasks[h].pc = "send"
    /\ IF ok
         THEN /\ tasks' = [tasks EXCEPT ![h].pc = "delete"]
              /\ ev' = NoEvent
              /\ UNCHANGED data
         ELSE Raise(h)
    /\ UNCHANGED <<data0, boot, sched, heap, lock, storeVars, saveVars>>

\* mark_ready resumes from line 70 and runs lines 71-80, and through
\* auto_reset_dynasty up to its await (line 106) when everyone is ready
DeleteDone(h, outcome) ==
    LET t == tasks[h]
        e == [NoEvent EXCEPT !.check = TRUE, !.own = is_ready(data, t.user, t.dynasty),
                             !.wrote = t.wrote, !.dynasty = t.dynasty,
                             !.completing = t.completing]
    IN
    /\ t.pc = "delete"
    /\ IF outcome = "HTTPException"
         THEN Raise(h)
         ELSE IF all_ready(data, t.dynasty)
           THEN LET r == auto_reset_dynasty(data, t.dynasty) IN
                /\ data' = r.data
                /\ tasks' = [tasks EXCEPT ![h].pc = "bsend"]
                /\ ev' = [e EXCEPT !.reset = {t.dynasty}, !.autoReset = TRUE,
                                   !.sent = {Notice("broadcast", t.dynasty, "")},
                                   !.saves = r.saves]
           ELSE LoopOn(h, data, t.user, t.rest, [e EXCEPT !.markEnd = TRUE])
    /\ UNCHANGED <<data0, boot, sched, heap, lock, storeVars, saveVars>>

\* auto_reset_dynasty resumes from line 106
BroadcastDone(h, ok) ==
    LET t == tasks[h] IN
    /\ t.pc = "bsend"
    /\ IF ok
         THEN LoopOn(h, data, t.user, t.rest,
                     [NoEvent EXCEPT !.markEnd = TRUE, !.autoReset = TRUE,
                                     !.dynasty = t.dynasty, !.wrote = t.wrote,
                                     !.completing = t.completing])
         ELSE Raise(h)
    /\ UNCHANGED <<data0, boot, sched, heap, lock, storeVars, saveVars>>

\* DynastyTracker.reset, lines 201-240, up to its await
Reset(h, arg) ==
    /\ tasks[h].pc = "idle"
    /\ tasks' = [tasks EXCEPT ![h].pc = "csend"]
    /\ IF arg = ""
         THEN LET r == reset_all(data, 1) IN
              /\ data' = r.data
              /\ ev' = [NoEvent EXCEPT !.reset = Range(DYNASTIES), !.saves = r.saves,
                                       !.sent = {Notice("reset_all", "", "")}]
         ELSE IF upper(arg) \notin Range(DYNASTIES)
           THEN /\ ev' = [NoEvent EXCEPT !.sent = {Notice("error", upper(arg), "")}]
                /\ UNCHANGED data
           ELSE LET r == reset_users(data, upper(arg), 1) IN
                /\ data' = r.data
                /\ ev' = [NoEvent EXCEPT !.reset = {upper(arg)}, !.saves = r.saves,
                                         !.sent = {Notice("reset", upper(arg), "")}]
    /\ UNCHANGED <<data0, boot, sched, heap, lock, storeVars, saveVars>>

\* a command resumes from its await ctx.send and ends (a failed send goes to
\* on_command_error, bot.py lines 49-63, which logs it)
CommandSent(h, ok) ==
    /\ tasks[h].pc = "csend"
    /\ tasks' = [tasks EXCEPT ![h] = NoTask]
    /\ ev' = [NoEvent EXCEPT !.raised = ~ok]
    /\ UNCHANGED <<data, data0, boot, sched, heap, lock, storeVars, saveVars>>

Next ==
    \/ \E h \in Tasks, m \in Messages : OnMessage(h, m)
    \/ \E h \in Tasks, ok \in BOOLEAN : SendDone(h, ok)
    \/ \E h \in Tasks, o \in {"ok", "Forbidden", "NotFound", "HTTPException"} : DeleteDone(h, o)
    \/ \E h \in Tasks, ok \in BOOLEAN : BroadcastDone(h, ok)
    \/ \E h \in Tasks, a \in ResetArgs : Reset(h, a)
    \/ \E h \in Tasks, ok \in BOOLEAN : CommandSent(h, ok)

Spec == Init /\ [][Next]_vars

(***************************************************************************)
(* TickSpec: the recurring reminder task and the wall clock.               *)
(*                                                                         *)
(* The clock, in TIMEZONE, runs in half hours through a window around the  *)
(* reminder's hour on the day before and on the day of the reminder, and   *)
(* from the end of the window to the start of the next week's.  The task   *)
(* (tasks.loop(hours=1)) runs reminder_task when it is started and then    *)
(* every hour; the cog can be unloaded or the process ended, and the task  *)
(* started again, at any time.  A wakeup is one step: the sends of         *)
(* send_reminders are its last statements and it reads nothing after them. *)
(***************************************************************************)
\* the members of the guild, each name a sequence of words: every tracked
\* user under exactly the configured name, or under a longer or differently
\* cased name that contains it
ExactMembers == {<<USERS[i]>> : i \in 1..Len(USERS)}
NickMembers == {<<"SAMSONITE000">>, <<"ChaseIsntOnFire", "99">>, <<"xX", "nmatt73", "xX">>}
Guilds == {ExactMembers, NickMembers}

\* the text channels of the guild, in order: what channel.send does on each
ChannelLists == {<<"ok">>, <<"Forbidden", "ok">>, <<"error", "ok">>, <<"Forbidden">>}

\* send_reminders, line 54: [user for user in USERS if not is_ready(user, dynasty)]
RECURSIVE not_ready(_, _, _)
not_ready(t, dynasty, i) ==
    IF i > Len(USERS) THEN <<>>
    ELSE (IF is_ready(t, USERS[i], dynasty) THEN <<>> ELSE <<USERS[i]>>)
         \o not_ready(t, dynasty, i + 1)

\* send_reminders, lines 52-56: not_ready_users, in insertion order
RECURSIVE not_ready_users(_, _)
not_ready_users(t, j) ==
    IF j > Len(DYNASTIES) THEN <<>>
    ELSE (IF not_ready(t, DYNASTIES[j], 1) = <<>> THEN <<>>
          ELSE <<[dynasty |-> DYNASTIES[j], users |-> not_ready(t, DYNASTIES[j], 1)]>>)
         \o not_ready_users(t, j + 1)

\* send_reminders, lines 72-77: the users for whom a member with m.name ==
\* user_name is found
RECURSIVE mentions(_, _, _)
mentions(users, members, i) ==
    IF i > Len(users) THEN <<>>
    ELSE (IF <<users[i]>> \in members THEN <<users[i]>> ELSE <<>>)
         \o mentions(users, members, i + 1)

\* send_reminders, lines 69-84: a field for each dynasty with a mention
RECURSIVE add_fields(_, _, _)
add_fields(roster, members, k) ==
    IF k > Len(roster) THEN <<>>
    ELSE (IF mentions(roster[k].users, members, 1) = <<>> THEN <<>>
          ELSE <<[dynasty |-> roster[k].dynasty,
                  users |-> mentions(roster[k].users, members, 1)]>>)
         \o add_fields(roster, members, k + 1)

Embed(title, fields) == [title |-> title, fields |-> fields]

\* a send_reminders that reports "all caught up" when nobody is outstanding:
\* a variant the tick's silence must tell from the code's
send_reminders_caught_up(t, members) ==
    IF not_ready_users(t, 1) = <<>> THEN <<Embed("All Caught Up!", <<>>)>>
    ELSE <<Embed("Weekly Dynasty Advancement Reminder",
                 add_fields(not_ready_users(t, 1), members, 1))>>

\* Reminders.send_reminders, lines 49-84: the embeds it builds to send
send_reminders(t, members) ==
    IF not_ready_users(t, 1) = <<>> THEN <<>>
    ELSE <<Embed("Weekly Dynasty Advancement Reminder",
                 add_fields(not_ready_users(t, 1), members, 1))>>

\* send_reminders, lines 87-96: the channels that took the embed (the first
\* one whose send does not raise)
delivered(chans) == IF \E i \in 1..Len(chans) : chans[i] = "ok" THEN 1 ELSE 0

\* reminder_task, line 40 (now.minute < 60 holds of every time)
Matches(c) == c.day = REMINDER_DAY /\ c.hour = REMINDER_HOUR /\ c.minute < 60

TickInit == SaveInit

\* Reminders.__init__, line 26: self.reminder_task.start(); the loop runs
\* its first iteration as soon as the bot is ready
StartTask ==
    /\ ~sched.running
    /\ sched' = [sched EXCEPT !.running = TRUE, !.due = 0]
    /\ ev' = NoEvent
    /\ UNCHANGED <<data, data0, boot, heap, lock, storeVars, saveVars, tasks>>

\* cog_unload, line 30 (reminder_task.cancel()), or the end of the process
StopTask ==
    /\ sched.running
    /\ sched' = [sched EXCEPT !.running = FALSE, !.due = 0]
    /\ ev' = NoEvent
    /\ UNCHANGED <<data, data0, boot, heap, lock, storeVars, saveVars, tasks>>

\* an iteration of the loop: reminder_task, lines 33-42, and send_reminders
Wakeup(members, chans) ==
    LET out == IF Matches(sched) THEN send_reminders(data, members) ELSE <<>> IN
    /\ sched.running /\ sched.due = 0
    /\ Matches(sched) => sched.fired < MaxFires
    /\ sched' = [sched EXCEPT !.due = 2,
                               !.fired = IF Matches(sched) THEN @ + 1 ELSE @]
    /\ ev' = [NoEvent EXCEPT !.tick = IF Matches(sched) THEN "match" ELSE "other",
                              !.embeds = out,
                              !.delivered = IF out = <<>> THEN 0 ELSE delivered(chans)]
    /\ UNCHANGED <<data, data0, boot, heap, lock, storeVars, saveVars, tasks>>

\* the time half an hour later (from the end of the window: the start of the
\* next week's window, a whole number of hours and a half later)
Later(c) ==
    IF c.minute = 0 THEN [c EXCEPT !.minute = 30]
    ELSE IF c.hour <= REMINDER_HOUR THEN [c EXCEPT !.hour = @ + 1, !.minute = 0]
    ELSE [c EXCEPT !.day = IF @ = REMINDER_DAY THEN REMINDER_DAY - 1 ELSE REMINDER_DAY,
                   !.hour = REMINDER_HOUR - 1, !.minute = 0]

\* half an hour passes; a task that is due runs first
Advance ==
    LET c == Later(sched) IN
    /\ sched.running => sched.due > 0
    /\ sched' = [c EXCEPT
           !.due = IF sched.running THEN sched.due - 1 ELSE 0,
           !.fired = IF c.day < sched.day THEN 0 ELSE sched.fired,
           !.atStart = IF c.day < sched.day THEN FALSE
                       ELSE IF Matches(c) /\ ~Matches(sched) THEN sched.running
                       ELSE sched.atStart,
           !.atEnd = IF c.day < sched.day THEN FALSE
                     ELSE IF Matches(sched) /\ ~Matches(c) THEN sched.running
                     ELSE sched.atEnd]
    /\ ev' = NoEvent
    /\ UNCHANGED <<data, data0, boot, heap, lock, storeVars, saveVars, tasks>>

\* a call of set_ready between two wakeups (from a handler or a command)
SetReadyCall(u, d, r) ==
    /\ data' = set_ready(data, u, d, r).data
    /\ ev' = NoEvent
    /\ UNCHANGED <<data0, boot, sched, heap, lock, storeVars, saveVars, tasks>>

TickNext ==
    \/ StartTask
    \/ StopTask
    \/ \E g \in Guilds, chans \in ChannelLists : Wakeup(g, chans)
    \/ Advance
    \/ \E u \in UserArgs, i \in 1..Len(DYNASTIES), r \in BOOLEAN :
           SetReadyCall(u, DYNASTIES[i], r)

TickSpec == TickInit /\ [][TickNext]_vars

(***************************************************************************)
(* FrameSpec: the scheduled tick and the commands, on one table.           *)
(***************************************************************************)
\* the arguments of the status and notify commands: none, a dynasty, an
\* unknown word
QueryArgs == {"", "adhnn", "nope"}

\* create_status_embed, embeds.py lines 24-41: a field for each dynasty whose
\* get_dynasty_status is not empty
RECURSIVE status_fields(_, _, _)
status_fields(t, dynasties, j) ==
    IF j > Len(dynasties) THEN <<>>
    ELSE (IF get_dynasty_status(t, dynasties[j]) = EmptyDict THEN <<>>
          ELSE <<[dynasty |-> dynasties[j], users |-> get_dynasty_status(t, dynasties[j])]>>)
         \o status_fields(t, dynasties, j + 1)

create_status_embed(t, dynasties) ==
    Embed("Dynasty Advancement Status", status_fields(t, dynasties, 1))

\* DynastyTracker.status, lines 108-135, up to its await
Status(h, arg) ==
    /\ tasks[h].pc = "idle"
    /\ tasks' = [tasks EXCEPT ![h].pc = "csend"]
    /\ ev' = IF arg = ""
               THEN [NoEvent EXCEPT !.sent = {Notice("status", "", "")},
                                    !.embeds = <<create_status_embed(data, DYNASTIES)>>]
             ELSE IF upper(arg) \notin Range(DYNASTIES)
               THEN [NoEvent EXCEPT !.sent = {Notice("error", upper(arg), "")}]
             ELSE [NoEvent EXCEPT !.sent = {Notice("status", upper(arg), "")},
                                  !.embeds = <<create_status_embed(data, <<upper(arg)>>)>>]
    /\ UNCHANGED <<data, data0, boot, sched, heap, lock, storeVars, saveVars>>

\* notify, lines 160-163: the dynasties to check that have a user who is
\* not ready, each with those users
RECURSIVE notifications(_, _, _)
notifications(t, dynasties, j) ==
    IF j > Len(dynasties) THEN <<>>
    ELSE (IF not_ready(t, dynasties[j], 1) = <<>> THEN <<>>
          ELSE <<[dynasty |-> dynasties[j], users |-> not_ready(t, dynasties[j], 1)]>>)
         \o notifications(t, dynasties, j + 1)

\* notify, lines 181-188: the users for whom a member is found whose name,
\* upper-cased, contains the user's
RECURSIVE found(_, _, _)
found(users, members, i) ==
    IF i > Len(users) THEN <<>>
    ELSE (IF \E m \in members : upper(users[i]) \in Words(m) THEN <<users[i]>> ELSE <<>>)
         \o found(users, members, i + 1)

\* notify, lines 180-195: a field for each dynasty with a mention
RECURSIVE notify_fields(_, _, _)
notify_fields(roster, members, k) ==
    IF k > Len(roster) THEN <<>>
    ELSE (IF found(roster[k].users, members, 1) = <<>> THEN <<>>
          ELSE <<[dynasty |-> roster[k].dynasty,
                  users |-> found(roster[k].users, members, 1)]>>)
         \o notify_fields(roster, members, k + 1)

\* DynastyTracker.notify, lines 138-198, up to its await
Notify(h, arg, members) ==
    LET dynasties_to_check == IF arg = "" THEN DYNASTIES ELSE <<upper(arg)>>
        roster == notifications(data, dynasties_to_check, 1)
    IN
    /\ tasks[h].pc = "idle"
    /\ tasks' = [tasks EXCEPT ![h].pc = "csend"]
    /\ ev' = IF arg # "" /\ upper(arg) \notin Range(DYNASTIES)
               THEN [NoEvent EXCEPT !.sent = {Notice("error", arg, "")}]
             ELSE IF roster = <<>>
               THEN [NoEvent EXCEPT !.sent = {Notice("caught_up", upper(arg), "")},
                                    !.embeds = <<Embed("All Caught Up!", <<>>)>>]
             ELSE [NoEvent EXCEPT !.sent = {Notice("notify", upper(arg), "")},
                                  !.embeds = <<Embed("Dynasty Advancement Reminder",
                                                     notify_fields(roster, members, 1))>>]
    /\ UNCHANGED <<data, data0, boot, sched, heap, lock, storeVars, saveVars>>

FrameInit == SaveInit

\* the commands run on the event loop one at a time up to their send
Commander == 1

FrameNext ==
    \/ StartTask
    \/ StopTask
    \/ \E g \in Guilds : Wakeup(g, <<"ok">>)
    \/ Advance
    \/ \E u \in UserArgs, d \in {DYNASTIES[1], DYNASTIES[NumDynasties]}, r \in BOOLEAN :
           SetReadyCall(u, d, r)
    \/ \E a \in ResetArgs : Reset(Commander, a)
    \/ \E a \in QueryArgs : Status(Commander, a)
    \/ \E a \in QueryArgs, g \in Guilds : Notify(Commander, a, g)
    \/ \E ok \in BOOLEAN : CommandSent(Commander, ok)

FrameSpec == FrameInit /\ [][FrameNext]_vars

(***************************************************************************)
(* HeapSpec: the objects of the process.                                   *)
(*                                                                         *)
(* A dict is an object: two names can hold the same one, and a write       *)
(* through either shows through both.  heap.rows holds the row dicts (user *)
(* to bool) made by _load_data, heap.stores the DynastyStorage objects,    *)
(* each with its data dict (dynasty to a row of heap.rows).  The cogs are  *)
(* constructed, and the store is called, on the event loop's thread, one   *)
(* call after the other.                                                   *)
(***************************************************************************)
\* the dynasties of a table, in the order of their keys
RECURSIVE KeysFrom(_, _, _)
KeysFrom(keys, S, i) ==
    IF i > Len(keys) THEN <<>>
    ELSE (IF keys[i] \in S THEN <<keys[i]>> ELSE <<>>) \o KeysFrom(keys, S, i + 1)

\* DynastyStorage.__new__, lines 23-27
__new__(h) ==
    IF h.instance = 0
      THEN [h EXCEPT !.stores = Append(@, [data |-> EmptyDict]),
                     !.instance = Len(h.stores) + 1]
      ELSE h

\* self.data = json.load(f), or _create_default_data: new row dicts for the
\* table t, and a new data dict over them, in the store s
NewData(h, s, t) ==
    LET keys == KeysFrom(DYN_KEYS, DOMAIN t, 1) IN
    [h EXCEPT !.rows = @ \o [i \in 1..Len(keys) |-> t[keys[i]]],
              !.stores[s].data = [d \in DOMAIN t |-> Len(h.rows) + IndexOf(keys, d)],
              !.table = t]

\* a constructor that loads whenever it is called: a variant the one load
\* of the process must tell from the code's
__init___every_time(h, s, f, made) ==
    IF ~made THEN h
    ELSE [NewData(h, s, _load_data(f).data) EXCEPT !.loads = @ + 1, !.initialized = TRUE]

\* DynastyStorage.__init__, lines 29-45, on the object s; made: whether the
\* data directory is there or os.makedirs makes it (it raises otherwise)
__init__(h, s, f, made) ==
    IF h.initialized THEN h
    ELSE IF ~made THEN [h EXCEPT !.stores[s].data = EmptyDict]
    ELSE [NewData(h, s, _load_data(f).data) EXCEPT !.loads = @ + 1, !.initialized = TRUE]

\* self._lock of the store s: the class attribute _lock = Lock(), line 21,
\* which no instance shadows
LockOf(h, s) == "DynastyStorage._lock"

\* the table of the store s, by value
TableOf(h, s) == [d \in DOMAIN h.stores[s].data |-> h.rows[h.stores[s].data[d]]]

\* the dict a name holds
RowAt(h, n) == IF n.idx = 0 THEN n.val ELSE h.rows[n.idx]

\* the values seen through the result r
Seen(h, r) ==
    CASE r.kind = "dynasty" -> RowAt(h, r.row)
      [] r.kind = "all" ->
           IF r.outer.idx = 0
             THEN [d \in DOMAIN r.rowOf |-> RowAt(h, r.rowOf[d])]
             ELSE TableOf(h, r.outer.idx)
      [] OTHER -> EmptyDict

HeapInit == SaveInit

\* a cog's __init__: self.storage = DynastyStorage() (dynasty_tracker.py line
\* 23, reminders.py line 25); the cog is loaded at startup and whenever its
\* extension is loaded again
Instantiate(c, made) ==
    LET h == __init__(__new__(heap), __new__(heap).instance, file, made) IN
    /\ heap' = [h EXCEPT !.refs[c] = IF made \/ heap.initialized THEN h.instance ELSE @]
    /\ UNCHANGED <<data, data0, boot, sched, lock, storeVars, saveVars, botVars>>

\* self.storage.set_ready(user, dynasty, ready) in the cog c: the write of
\* line 108 goes into the row dict of the table
HeapSetReady(c, u, d, r) ==
    LET s == heap.refs[c]
        t == TableOf(heap, s)
        dyn == upper(d)
    IN
    /\ s # 0
    /\ IF set_ready_keys_ok(t, u, d)
         THEN heap' = [heap EXCEPT !.rows[heap.stores[s].data[dyn]][u] = r,
                                   !.table = set_ready_write(@, u, d, r)]
         ELSE UNCHANGED heap
    /\ UNCHANGED <<data, data0, boot, sched, lock, storeVars, saveVars, botVars>>

\* DynastyStorage.get_dynasty_status, lines 129-136, on the store s: {} or
\* self.data[dynasty].copy(), a new dict
get_dynasty_status_result(h, s, d) ==
    [NoResult EXCEPT !.kind = "dynasty",
                     !.row = Own(get_dynasty_status(TableOf(h, s), d)),
                     !.at = get_dynasty_status(TableOf(h, s), d)]

\* DynastyStorage.get_all_statuses, lines 139-141, on the store s:
\* self.data.copy(), a new dict whose values are the rows of the table
get_all_statuses_result(h, s) ==
    [NoResult EXCEPT !.kind = "all",
                     !.outer = Own(EmptyDict),
                     !.rowOf = [d \in DOMAIN h.stores[s].data |-> Shared(h.stores[s].data[d])],
                     !.at = get_all_statuses(TableOf(h, s))]

\* the cog c calls get_dynasty_status(d) and keeps the result as k
HeapGetDynastyStatus(k, c, d) ==
    /\ heap.refs[c] # 0
    /\ heap' = [heap EXCEPT !.results[k] = get_dynasty_status_result(heap, heap.refs[c], d)]
    /\ UNCHANGED <<data, data0, boot, sched, lock, storeVars, saveVars, botVars>>

\* the cog c calls get_all_statuses() and keeps the result as k
HeapGetAllStatuses(k, c) ==
    /\ heap.refs[c] # 0
    /\ heap' = [heap EXCEPT !.results[k] = get_all_statuses_result(heap, heap.refs[c])]
    /\ UNCHANGED <<data, data0, boot, sched, lock, storeVars, saveVars, botVars>>

\* the dynasties under which the holder of a result changes it
ChangedDynasties == {DYNASTIES[1], DYNASTIES[NumDynasties]}

\* the write of v under the user u into the dict the name n holds
WriteRow(h, n, u, v) ==
    IF n.idx = 0 THEN h ELSE [h EXCEPT !.rows[n.idx][u] = v]
Written(n, u, v) ==
    IF n.idx = 0 THEN Own([n.val EXCEPT ![u] = v]) ELSE n

\* the holder of the result k changes an entry of it: result[u] = v on a
\* result of get_dynasty_status, result[d][u] = v on one of get_all_statuses
ChangeResult(k, d, u, v) ==
    LET r == heap.results[k] IN
    /\ r.kind # "none"
    /\ IF r.kind = "dynasty"
         THEN /\ u \in DOMAIN r.at
              /\ heap' = [WriteRow(heap, r.row, u, v) EXCEPT
                             !.results[k].row = Written(r.row, u, v),
                             !.results[k].at = [r.at EXCEPT ![u] = v]]
         ELSE /\ d \in DOMAIN r.at /\ u \in DOMAIN r.at[d]
              /\ heap' = [WriteRow(heap, r.rowOf[d], u, v) EXCEPT
                             !.results[k].rowOf[d] = Written(r.rowOf[d], u, v),
                             !.results[k].at = [r.at EXCEPT ![d][u] = v]]
    /\ UNCHANGED <<data, data0, boot, sched, lock, storeVars, saveVars, botVars>>

\* the holder of a result of get_all_statuses takes a dynasty out of it:
\* del result[d]
DropFromResult(k, d) ==
    LET r == heap.results[k]
        rest == DOMAIN r.at \ {d}
    IN
    /\ r.kind = "all" /\ d \in DOMAIN r.at
    /\ heap' = [heap EXCEPT
           !.results[k].rowOf = [x \in rest |-> r.rowOf[x]],
           !.results[k].at = [x \in rest |-> r.at[x]],
           !.stores = IF r.outer.idx = 0 THEN @
                      ELSE [@ EXCEPT ![r.outer.idx].data = [x \in rest |-> @[x]]]]
    /\ UNCHANGED <<data, data0, boot, sched, lock, storeVars, saveVars, botVars>>

HeapNext ==
    \/ \E c \in Components, made \in BOOLEAN : Instantiate(c, made)
    \/ \E c \in Components, u \in UserArgs, d \in DynastyArgs, r \in BOOLEAN :
           HeapSetReady(c, u, d, r)
    \/ \E k \in Results, d \in DynastyArgs : HeapGetDynastyStatus(k, k, d)
    \/ \E k \in Results : HeapGetAllStatuses(k, k)
    \/ \E k \in Results, d \in ChangedDynasties, u \in UserArgs, v \in BOOLEAN :
           ChangeResult(k, d, u, v)
    \/ \E k \in Results, d \in ChangedDynasties : DropFromResult(k, d)

HeapSpec == HeapInit /\ [][HeapNext]_vars

(***************************************************************************)
(* Properties.                                                             *)
(***************************************************************************)
SameShape(t, t0) == DOMAIN t = DOMAIN t0 /\ \A d \in DOMAIN t : DOMAIN t[d] = DOMAIN t0[d]

Handling(h) == tasks[h].pc \in {"send", "delete", "bsend"}

\* C1 (Spec), completion trigger: starting from the all-false table, a
\* mark_ready that ends having left some configured user not ready for its
\* dynasty D has made no AutoReset and no broadcast; a mark_ready that ends
\* having made every configured user ready for D has run AutoReset (one
\* broadcast for D), and right after an AutoReset of D is_ready is False for
\* every configured user of D.
C1_CompletionTrigger ==
    data0 = _create_default_data =>
        /\ (ev.markEnd /\ ~ev.completing) => ~ev.autoReset
        /\ (ev.markEnd /\ ev.completing) => ev.autoReset
        /\ (ev.check /\ ev.autoReset) =>
              /\ ev.sent = {Notice("broadcast", ev.dynasty, "")}
              /\ \A u \in Range(USERS) : ~is_ready(data, u, ev.dynasty)

\* C2 (Spec), set then read: right after a step that called
\* set_ready(U, D, True) for a configured user U and dynasty D, is_ready(U, D)
\* is True; right after a step that reset D (reset command for D or for all,
\* AutoReset of D), is_ready(U, D) is False for every configured user U.
C2_SetThenRead ==
    /\ \A p \in ev.marked : is_ready(data, p[1], p[2])
    /\ \A d \in ev.reset : \A u \in Range(USERS) : ~is_ready(data, u, d)

\* C3 (StoreSpec), UnknownKey: a call of set_ready, is_ready or
\* get_dynasty_status on a key that is not in the table has returned False
\* (an empty mapping for get_dynasty_status), its set_ready has started no
\* save thread, the table has the keys it had at startup, and as long as
\* every set_ready made was on such a key every entry has its startup value.
C3_UnknownKey ==
    /\ \A c \in Callers :
          (callers[c].pc = "returned" /\ ~callers[c].known) =>
              /\ callers[c].val = FALSE
              /\ callers[c].map = EmptyDict
              /\ savers[c] = "none"
    /\ SameShape(data, data0)
    /\ (\A c \in Callers : callers[c].op = "set_ready" => ~callers[c].known) => data = data0

\* a set_ready and a get_dynasty_status have returned on an unknown key
C3_Witness ==
    /\ callers[1].pc = "returned" /\ callers[1].op = "set_ready"
    /\ ~callers[1].known /\ callers[1].val = FALSE
    /\ callers[2].pc = "returned" /\ callers[2].op = "get_dynasty_status"
    /\ ~callers[2].known /\ callers[2].map = EmptyDict
    /\ data = data0

\* C4 (StoreSpec), table shape: in every state after startup the table has
\* exactly the configured dynasties as keys and, under each, exactly the
\* configured users.
C4_TableShape ==
    /\ DOMAIN data = Range(DYNASTIES)
    /\ \A d \in DOMAIN data : DOMAIN data[d] = Range(USERS)

\* C5 (Spec), no persisted Complete: starting from the all-false table, in
\* every state in which no on_message handler is inside mark_ready, every
\* configured dynasty has a configured user who is not ready.
C5_NoPersistedComplete ==
    (data0 = _create_default_data /\ \A h \in Tasks : ~Handling(h)) =>
        \A d \in Range(DYNASTIES) : \E u \in Range(USERS) : ~is_ready(data, u, d)

\* C6 (Spec), the check observes its own mutation: when mark_ready's
\* all-ready check runs after the handler's own set_ready(U, D, True)
\* returned True, the entry (D, U) it reads is still True.
C6_CheckSeesOwnWrite == (ev.check /\ ev.wrote) => ev.own

\* the calls of set_ready on the entry (d, u) of the table, and those that
\* have made their write
CallsOn(d, u) ==
    {c \in Callers : /\ callers[c].op = "set_ready" /\ callers[c].known
                     /\ upper(callers[c].dynasty) = d /\ callers[c].user = u}
WrittenOn(d, u) == {c \in CallsOn(d, u) : callers[c].pc \in {"spawn", "returned"}}

\* C7 (StoreSpec), concurrent set_ready on one entry: in every state every
\* entry holds its startup value or the value of a call on it that has made
\* its write; once all the calls on it have returned it holds the value of
\* one of them; an entry no call was made on has its startup value; the
\* table's keys are those of startup.
C7_ConcurrentSetReady ==
    /\ SameShape(data, data0)
    /\ \A d \in DOMAIN data0 : \A u \in DOMAIN data0[d] :
          /\ data[d][u] \in {data0[d][u]} \cup {callers[c].ready : c \in WrittenOn(d, u)}
          /\ (CallsOn(d, u) # {} /\ \A c \in CallsOn(d, u) : callers[c].pc = "returned") =>
                data[d][u] \in {callers[c].ready : c \in CallsOn(d, u)}
          /\ WrittenOn(d, u) = {} => data[d][u] = data0[d][u]

\* two calls on the same entry, with different values, have both returned
C7_Witness ==
    /\ callers[1].pc = "returned" /\ callers[2].pc = "returned"
    /\ callers[1].op = "set_ready" /\ callers[2].op = "set_ready"
    /\ callers[1].known /\ callers[2].known
    /\ callers[1].user = callers[2].user
    /\ upper(callers[1].dynasty) = upper(callers[2].dynasty)
    /\ callers[1].ready # callers[2].ready

\* C8 (StoreSpec), lock discipline: no step reads or writes the table
\* without holding the lock.
C8_LockDiscipline == access # "unlocked"

\* C9 (SaveSpec), point-in-time snapshot: the table a save thread has
\* serialised when json.dump ends is the table as it was when the thread
\* made its copy under the lock.
C9_PointInTime ==
    \A w \in Writers :
        writers[w].pc = "close" =>
            Dumped(writers[w].rows, data, writers[w].vals) = writers[w].snap

\* C10 (SaveSpec), overlapping writes: once every save thread has ended, the
\* file's text is the whole output of the last thread to complete, and it
\* loads as a table with exactly the keys of the in-memory table.
C10_LastWriterWins ==
    (lastOut.some /\ \A w \in Writers : writers[w].pc = "none") =>
        /\ file.cells = lastOut.text
        /\ json_load(file.cells).ok
        /\ SameShape(json_load(file.cells).val, data)

\* C11 (LoadSpec), round trip: a file that is the written form of the table
\* loads as that very table and starts no save; and a run that started on
\* the file the run before had written its table to has, at startup, the
\* table the run before ended with.
C11_RoundTrip ==
    /\ file = FileOf(json_dump(data)) =>
            _load_data(file) = [data |-> data, save |-> FALSE]
    /\ boot.synced => (data0 = boot.prev /\ ~boot.saved)

\* a run has started on the written form of a table over the configured keys
\* that has both a true and a false entry
C11_Witness ==
    /\ boot.synced
    /\ C4_TableShape
    /\ data0 = boot.prev
    /\ \E d \in DOMAIN data0 : \E u \in DOMAIN data0[d], v \in DOMAIN data0[d] :
          data0[d][u] /\ ~data0[d][v]

\* what startup did with the file it found: the default table and a save on
\* a missing or malformed file, the file's table and no save otherwise
LoadedAsSaid ==
    IF boot.file.exists /\ json_load(boot.file.cells).ok
      THEN data0 = json_load(boot.file.cells).val /\ ~boot.saved
      ELSE data0 = _create_default_data /\ boot.saved

\* the save thread w that _load_data started ends in this step, its text
\* written
StartupWriteEnds(w) ==
    /\ writers[w].boot /\ writers[w].pc = "close" /\ writers'[w].pc = "none"
    /\ lastOut'.some

\* no set_ready has returned True since startup: no other save thread is
\* alive or has ended
NoSaveSinceStartup(w) ==
    ~lastOut.some /\ ~lastOut.failed /\ \A v \in Writers \ {w} : writers[v].pc = "none"

FileIsTable(f, t) == f.exists /\ json_load(f.cells).ok /\ json_load(f.cells).val = t

\* C12 (SaveSpec) as stated, load fallback: startup on a missing or malformed
\* file gives the default table and starts a save, startup on a well-formed
\* file gives the file's table and starts none; and when the startup save
\* ends, the file is the written form of the in-memory table.
C12_LoadFallback ==
    [][/\ LoadedAsSaid
       /\ \A w \in Writers : StartupWriteEnds(w) => FileIsTable(file', data')]_vars

\* C12 (SaveSpec) as amended: the same, the last part for a startup save
\* that ends before any set_ready has returned True.
C12_LoadFallbackQuiet ==
    [][/\ LoadedAsSaid
       /\ \A w \in Writers :
             (StartupWriteEnds(w) /\ NoSaveSinceStartup(w)) => FileIsTable(file', data')]_vars

\* the startup save has ended and the file holds the default table
C12_Witness ==
    /\ boot.saved /\ ~boot.file.exists
    /\ \A w \in Writers : writers[w].pc = "none"
    /\ lastOut.some
    /\ FileIsTable(file, _create_default_data)
    /\ data = _create_default_data

\* the last step was an iteration of reminder_task, at the slot or not; the
\* users it found outstanding (an iteration leaves the table as it is)
TickSaw(kind) == ev.tick = kind
Outstanding == not_ready_users(data, 1)

\* C13: a scheduled tick at the configured weekday and hour emits a reminder
\* that lists every dynasty with a not-ready configured user, each with
\* exactly its not-ready users, and nothing else; a tick at any other time
\* emits nothing.
C13_ReminderComputation ==
    /\ (TickSaw("match") /\ Outstanding # <<>>) =>
           ev.embeds = <<Embed("Weekly Dynasty Advancement Reminder", Outstanding)>>
    /\ TickSaw("other") => ev.embeds = <<>>

\* C14: on a tick at the configured slot with no not-ready user in any
\* dynasty, the tick emits an "all caught up" notification and no reminder.
C14_AllCaughtUp ==
    (TickSaw("match") /\ Outstanding = <<>>) =>
        ev.embeds = <<Embed("All Caught Up!", <<>>)>>

\* C14, amended: on a tick at the configured slot with no not-ready user in
\* any dynasty, the tick emits no notification at all.
C14_SilentWhenCaughtUp ==
    (TickSaw("match") /\ Outstanding = <<>>) =>
        (ev.embeds = <<>> /\ ev.delivered = 0)

C14_Witness ==
    /\ TickSaw("match") /\ Outstanding = <<>>
    /\ C4_TableShape
    /\ ev.embeds = <<>>

\* C15: in each weekly occurrence of the configured slot the reminder path
\* is invoked at most once, and exactly once when the task runs through the
\* whole of the matching hour, whatever the starts and the wakeups of the
\* task.
C15_SingleFire ==
    /\ sched.fired <= 1
    /\ (sched.atStart /\ sched.atEnd) => sched.fired = 1

\* C16: one message yields at most one readiness signal: the entry of the
\* first matching dynasty and the first matching user is set ready in the
\* step that receives the message, and the handling of the message sets no
\* other entry ready afterwards.
C16_FirstMatch ==
    /\ Cardinality(ev.marked) <= 1
    /\ ev.marked # {} => ~ev.markEnd

\* the message is no readiness signal: it is the bot's own or a direct
\* message, its text lacks "READY" or every configured dynasty, or its
\* author's name contains no configured user
NoMatch(m) ==
    \/ m.self
    \/ ~m.guild
    \/ "READY" \notin Words(m.content)
    \/ \A j \in 1..Len(DYNASTIES) : DYNASTIES[j] \notin Words(m.content)
    \/ \A i \in 1..Len(USERS) : upper(USERS[i]) \notin Words(m.author)

\* every message that is no readiness signal is one on_message ignores
NoMatchIgnored == \A m \in Messages : NoMatch(m) => Ignored(m)

\* C17: a message that is no readiness signal is one on_message ignores,
\* and the handling of an ignored message changes no entry of the table,
\* starts no save, sends no notification and deletes no message (it leaves
\* no handler waiting on a send or a deletion).
C17_NoMatchNoEffect ==
    [][/\ NoMatchIgnored
       /\ ev'.ignored =>
              /\ data' = data
              /\ tasks' = tasks
              /\ ev'.saves = 0 /\ ev'.sent = {} /\ ev'.marked = {}
              /\ file' = file /\ writers' = writers]_vars

C17_Witness ==
    /\ ev.ignored
    /\ ev.saves = 0 /\ ev.sent = {}
    /\ \E d \in DOMAIN data : \E u \in DOMAIN data[d] : data[d][u]
    /\ \E h \in Tasks : tasks[h].pc = "delete"

\* the confirmation send of handler h fails, or its deletion does
DeliveryFails(h) ==
    \/ SendDone(h, FALSE)
    \/ \E o \in {"Forbidden", "NotFound", "HTTPException"} : DeleteDone(h, o)

\* C18: when the confirmation send or the deletion of a readiness signal's
\* handling fails, the entry the handling wrote stays true unless a reset
\* of its dynasty follows, and no exception leaves the handler.
C18_DeliveryFailure ==
    [][\A h \in Tasks :
          DeliveryFails(h) =>
              /\ ~ev'.raised
              /\ is_ready(data, tasks[h].user, tasks[h].dynasty) =>
                     \/ is_ready(data', tasks[h].user, tasks[h].dynasty)
                     \/ tasks[h].dynasty \in ev'.reset]_vars

\* C19: when a save thread's write fails, the table keeps the value the
\* set_ready that started the thread (and returned True) wrote, and so do
\* the answers of is_ready; the thread ends and no other is started for it;
\* and the next set_ready that returns True starts a new save thread, which
\* writes the whole table.
C19_SaveFailure ==
    [][/\ \A w \in Writers :
             WriterFail(w) =>
                 /\ data' = data
                 /\ \A u \in UserArgs, d \in DynastyArgs :
                        is_ready(data', u, d) = is_ready(data, u, d)
                 /\ writers'[w] = NoWriter
                 /\ \A v \in Writers \ {w} : writers'[v] = writers[v]
       /\ \A u \in UserArgs, d \in DynastyArgs, r \in BOOLEAN :
             (lastOut.failed /\ set_ready_keys_ok(data, u, d) /\ SetReady(u, d, r)) =>
                 /\ is_ready(data', u, d) = r
                 /\ \E w \in Writers :
                        /\ writers[w].pc = "none"
                        /\ writers'[w] = _save_data]_vars

C19_Witness ==
    /\ lastOut.failed
    /\ \A w \in Writers : writers[w].pc = "none"
    /\ C4_TableShape
    /\ data # data0
    /\ ~FileIsTable(file, data)

\* the table after the reset command on dynasty D, and after it twice
ResetOnce(D) == reset_users(data, D, 1).data
ResetTwice(D) == reset_users(ResetOnce(D), D, 1).data

\* C20: for every table and every configured dynasty D, the reset of D run
\* twice leaves the table the reset of D run once leaves: every configured
\* user not ready for D (every entry of D false), every other dynasty as it
\* was; and the table a reset command of D has just left is one a second
\* reset of D does not change.
C20_ResetIdempotent ==
    /\ \A D \in Range(DYNASTIES) :
          /\ ResetTwice(D) = ResetOnce(D)
          /\ \A u \in Range(USERS) : ~is_ready(ResetOnce(D), u, D)
          /\ C4_TableShape => \A u \in DOMAIN ResetOnce(D)[D] : ~ResetOnce(D)[D][u]
          /\ DOMAIN ResetOnce(D) = DOMAIN data
          /\ \A d \in DOMAIN data \ {D} : ResetOnce(D)[d] = data[d]
    /\ \A D \in Range(DYNASTIES) :
          Notice("reset", D, "") \in ev.sent =>
              /\ \A u \in Range(USERS) : ~is_ready(data, u, D)
              /\ ResetOnce(D) = data

C20_Witness ==
    /\ Notice("reset", DYNASTIES[1], "") \in ev.sent
    /\ C4_TableShape
    /\ \A u \in Range(USERS) : ~data[DYNASTIES[1]][u]
    /\ \E u \in Range(USERS) : data[DYNASTIES[2]][u]
    /\ \E h \in Tasks : tasks[h].pc = "csend"

\* the stores the cogs hold
Held == {heap.refs[c] : c \in Components} \ {0}

\* C21: however many times DynastyStorage() is called, there is one store
\* object: every cog holds the same one, with one table (the same data dict
\* and rows, so that a write through one shows through the other) and one
\* lock; _load_data has run exactly once, and no later call has made the
\* table anew.
C21_Singleton ==
    /\ Len(heap.stores) <= 1
    /\ heap.loads <= 1
    /\ Held # {} =>
          /\ Held = {heap.instance}
          /\ heap.initialized /\ heap.loads = 1
          /\ Len(heap.rows) = Cardinality(DOMAIN heap.stores[heap.instance].data)
    /\ \A s1 \in Held : \A s2 \in Held :
          /\ heap.stores[s1].data = heap.stores[s2].data
          /\ TableOf(heap, s1) = TableOf(heap, s2)
          /\ LockOf(heap, s1) = LockOf(heap, s2)

C21_Witness ==
    /\ \A c \in Components : heap.refs[c] = heap.instance /\ heap.instance # 0
    /\ heap.loads = 1
    /\ TableOf(heap, heap.instance) # data0
    /\ \E d \in DOMAIN heap.table : \E u \in DOMAIN heap.table[d] :
          TableOf(heap, heap.refs["Reminders"])[d][u]

\* C22: the results of get_dynasty_status and get_all_statuses are copies:
\* a result shows the values it had when it was returned (or its holder
\* last changed it) whatever set_ready has done since, and the store's
\* table is as the calls of set_ready have made it whatever the holders of
\* results have changed in them, at either level.
C22_SnapshotCopies ==
    /\ \A k \in Results :
          heap.results[k].kind # "none" => Seen(heap, heap.results[k]) = heap.results[k].at
    /\ heap.initialized => TableOf(heap, heap.instance) = heap.table

\* the handlers that have set an entry of D and have still to make their
\* all-ready check on it
CheckAhead(D) == {h \in Tasks : tasks[h].pc \in {"send", "delete"} /\ tasks[h].dynasty = D}

\* the mark_ready that has just ended set an entry of its dynasty without
\* making everyone ready, and everyone is ready now: handlers that ran while
\* it was suspended have made the others ready
CompletedByOthers ==
    ev.markEnd /\ ev.wrote /\ ~ev.completing /\ all_ready(data, ev.dynasty)

\* C23: when handlers of signals for one dynasty D interleave at their
\* awaits and have together made every configured user ready for D, one of
\* them makes the AutoReset: a handler that ends leaving everyone ready,
\* the others made ready while it was suspended, leaves a handler on its way
\* to the check; the step that finds everyone ready resets every entry of D
\* before any other handler runs (D is all false after it), and makes one
\* reset and one broadcast for D.
C23_SingleBroadcast ==
    /\ CompletedByOthers => CheckAhead(ev.dynasty) # {}
    /\ (ev.check /\ ev.autoReset) =>
          /\ ev.reset = {ev.dynasty}
          /\ ev.sent = {Notice("broadcast", ev.dynasty, "")}
          /\ \A u \in Range(USERS) : ~is_ready(data, u, ev.dynasty)

\* C24 (SaveOkSpec, no save thread fails): after any calls of set_ready,
\* once every save thread has ended, the snapshot file decodes to the table
\* in memory.
C24_SnapshotConvergence ==
    (lastOut.some /\ \A w \in Writers : writers[w].pc = "none") =>
        FileIsTable(file, data)


\* the arguments of the reset command that name no configured dynasty
UnknownArgs == {a \in ResetArgs : a # "" /\ upper(a) \notin Range(DYNASTIES)}

\* C25: the reset command for a configured dynasty D changes only D's
\* entries and leaves every other dynasty's entries unchanged; the reset
\* command for an unknown dynasty changes no entry and emits an error
\* notification; the status command, the notify command and the scheduled
\* tick never change any entry of the table.
\* (CommandStep: a command runs up to its send; OnlyChanges(D): every row
\* but D's is the same after the step and no row but D's is added.)
C25_Frame ==
    [][LET CommandStep == tasks[Commander].pc = "idle" /\ tasks'[Commander].pc = "csend"
           OnlyChanges(D) ==
               /\ DOMAIN data' \subseteq DOMAIN data \cup {D}
               /\ \A d \in DOMAIN data : d # D => d \in DOMAIN data' /\ data'[d] = data[d]
       IN
       /\ CommandStep =>
            /\ \A n \in ev'.sent : n.kind = "reset" => OnlyChanges(n.dynasty)
            /\ \A a \in UnknownArgs :
                  Reset(Commander, a) =>
                      data' = data /\ ev'.sent = {Notice("error", upper(a), "")}
            /\ (\E n \in ev'.sent : n.kind \in {"status", "notify", "caught_up", "error"}) =>
                  data' = data
       /\ ev'.tick # "none" => data' = data]_vars

\* a dynasty has been reset while another keeps a ready user, after a
\* scheduled tick has fired
C25_Witness ==
    /\ ev.sent = {Notice("reset", DYNASTIES[1], "")}
    /\ \A u \in Range(USERS) : ~is_ready(data, u, DYNASTIES[1])
    /\ \E u \in Range(USERS) : is_ready(data, u, DYNASTIES[NumDynasties])
    /\ sched.fired > 0
====
